---------------------------- MODULE Spec2Model ----------------------------
(***************************************************************************)
(* A model of simian/mac/munki/plist.py: the ApplePlist object (format     *)
(* sniffing, the XML decoder's three stacks, the binary decoder, the       *)
(* validator) and the XML encoder GetXmlStr.                               *)
(*                                                                         *)
(* Representation.                                                         *)
(*   - A text is a sequence of one-character strings.                      *)
(*   - A Python value is a record [t |-> <type name>, v |-> <payload>];    *)
(*     t is the name type() gives (str and unicode are kept apart).        *)
(*   - A dict is a function from key records to values.                    *)
(*   - An XML text is a sequence of lexemes: an open tag, a close tag, an  *)
(*     empty-element tag or a run of character data.  The tokenizer        *)
(*     (expat) is Expat* below: it checks nesting and cuts character data  *)
(*     into the pieces the handlers are called with.                       *)
(*   - A raw buffer is a sequence of byte values 0..255.                   *)
(***************************************************************************)
EXTENDS Integers, Sequences, FiniteSets, TLC

(***************************************************************************)
(* Bounds of the model.                                                    *)
(***************************************************************************)
\* longest list of registered validation hooks
MaxHooks == 2
\* deepest mode stack at which a further Parse is still started (each XML
\* parse leaves two entries behind, so the stack grows without bound)
MaxModeDepth == 3
\* deepest chain of nested _BinLoadObject calls followed before the
\* interpreter's recursion limit is taken to be hit
MaxRecursion == 6

(***************************************************************************)
(* Python values.  The type name t is the first field a record of the     *)
(* module names: values of different types are told apart by it before    *)
(* their payloads are looked at.                                           *)
(***************************************************************************)
PyNone == [t |-> "NoneType", v |-> << >>]
PyBool(b) == [t |-> "bool", v |-> b]
PyInt(n) == [t |-> "int", v |-> n]
\* a float, held as a whole number of millionths
PyFloat(micro) == [t |-> "float", v |-> micro]
PyStr(txt) == [t |-> "str", v |-> txt]
PyUnicode(txt) == [t |-> "unicode", v |-> txt]
\* a datetime <<year, month, day, hour, minute, second>>
PyDate(d) == [t |-> "datetime", v |-> d]
PyList(s) == [t |-> "list", v |-> s]
PyDict(f) == [t |-> "dict", v |-> f]
PySet(s) == [t |-> "set", v |-> s]
AppleUid(n) == [t |-> "AppleUid", v |-> n]
AppleData(txt) == [t |-> "AppleData", v |-> txt]

EmptyDict == PyDict(<< >>)
EmptyList == PyList(<< >>)

\* a dict key: str and unicode keys with the same text are the same key
KeyOfText(txt) == [t |-> "s", v |-> txt]

IsString(x) == x.t \in {"str", "unicode"}

\* the key record under which d[k] files a hashable value
KeyOf(x) == IF IsString(x) \/ x.t = "AppleData" THEN KeyOfText(x.v)
            ELSE [t |-> x.t, v |-> x.v]

\* d[k] = v
DictSet(d, k, x) ==
  PyDict([j \in (DOMAIN d.v) \cup {k} |-> IF j = k THEN x ELSE d.v[j]])

\* the order in which a dict is iterated: fixed by the key set
KeyOrder(f) ==
  LET n == Cardinality(DOMAIN f)
  IN CHOOSE s \in [1..n -> DOMAIN f] : \A i, j \in 1..n : i # j => s[i] # s[j]

\* not x (truth value testing)
Falsy(x) ==
  \/ x.t = "NoneType"
  \/ x.t = "bool" /\ x.v = FALSE
  \/ x.t \in {"int", "float", "AppleUid"} /\ x.v = 0
  \/ x.t \in {"str", "unicode", "AppleData", "list"} /\ x.v = << >>
  \/ x.t = "dict" /\ DOMAIN x.v = {}
  \/ x.t = "set" /\ x.v = {}

(***************************************************************************)
(* Texts.                                                                  *)
(***************************************************************************)
NL == "\n"
SP == " "

DigitChars == <<"0", "1", "2", "3", "4", "5", "6", "7", "8", "9">>

IsDigit(c) == \E i \in 1..10 : DigitChars[i] = c

DigitVal(c) == (CHOOSE i \in 1..10 : DigitChars[i] = c) - 1

RECURSIVE Digits(_)
\* '%d' of a natural number
Digits(n) ==
  IF n < 10 THEN <<DigitChars[n + 1]>>
  ELSE Digits(n \div 10) \o <<DigitChars[(n % 10) + 1]>>

\* '%d' % n
IntToText(n) == IF n < 0 THEN <<"-">> \o Digits(0 - n) ELSE Digits(n)

RECURSIVE PadLeft(_, _)
\* zero padding to a width, as %02d / %04d / %06d do
PadLeft(txt, w) == IF Len(txt) >= w THEN txt ELSE PadLeft(<<"0">> \o txt, w)

RECURSIVE DigitsVal(_)
DigitsVal(txt) ==
  IF txt = << >> THEN 0
  ELSE 10 * DigitsVal(SubSeq(txt, 1, Len(txt) - 1)) + DigitVal(txt[Len(txt)])

AllDigits(txt) == txt # << >> /\ \A i \in 1..Len(txt) : IsDigit(txt[i])

RECURSIVE StripLeft(_)
StripLeft(txt) ==
  IF txt # << >> /\ txt[1] \in {SP, NL} THEN StripLeft(Tail(txt)) ELSE txt

RECURSIVE StripRight(_)
StripRight(txt) ==
  IF txt # << >> /\ txt[Len(txt)] \in {SP, NL}
  THEN StripRight(SubSeq(txt, 1, Len(txt) - 1)) ELSE txt

\* int(text): surrounding blanks are dropped, one sign is allowed; anything
\* else is a ValueError
ParseInt(txt) ==
  LET s == StripRight(StripLeft(txt))
      body == IF s # << >> /\ s[1] \in {"-", "+"} THEN Tail(s) ELSE s
      neg == s # << >> /\ s[1] = "-"
  IN IF AllDigits(body)
     THEN [ok |-> TRUE, v |-> IF neg THEN 0 - DigitsVal(body) ELSE DigitsVal(body)]
     ELSE [ok |-> FALSE, v |-> 0]

\* '%s' % key
KeyText(k) == IF k.t = "s" THEN k.v
              ELSE IF k.t \in {"int", "AppleUid"} THEN IntToText(k.v)
              ELSE <<"?">>

(***************************************************************************)
(* XML text as lexemes.                                                    *)
(***************************************************************************)
Open(name) == [k |-> "open", n |-> name, c |-> << >>]
Close(name) == [k |-> "close", n |-> name, c |-> << >>]
EmptyTag(name) == [k |-> "empty", n |-> name, c |-> << >>]
Chars(txt) == [k |-> "text", n |-> "", c |-> txt]
\* the place in an encoder's output where it raised PlistError
Raise == [k |-> "raise", n |-> "PlistError", c |-> << >>]

HasRaise(lex) == \E i \in 1..Len(lex) : lex[i].k = "raise"

RECURSIVE Indent(_)
\* INDENT_CHAR * indent_num
Indent(n) == IF n <= 0 THEN << >> ELSE <<SP, SP>> \o Indent(n - 1)

\* PLIST_DATE_FORMAT = '%Y-%m-%dT%H:%M:%SZ' (strftime)
FormatDate(d) ==
  PadLeft(Digits(d[1]), 4) \o <<"-">> \o PadLeft(Digits(d[2]), 2) \o <<"-">>
    \o PadLeft(Digits(d[3]), 2) \o <<"T">> \o PadLeft(Digits(d[4]), 2) \o <<":">>
    \o PadLeft(Digits(d[5]), 2) \o <<":">> \o PadLeft(Digits(d[6]), 2) \o <<"Z">>

\* '%f' % value, the value being micro / 10**6
FormatFloat(micro) ==
  LET a == IF micro < 0 THEN 0 - micro ELSE micro
  IN (IF micro < 0 THEN <<"-">> ELSE << >>) \o Digits(a \div 1000000)
       \o <<".">> \o PadLeft(Digits(a % 1000000), 6)

\* base64.b64encode, abstracted: the payload between two marks that no
\* payload holds, so that encoded and plain text differ
B64Encode(txt) == <<"{">> \o txt \o <<"}">>

RECURSIVE GetXmlStr(_, _)
RECURSIVE SequenceBody(_, _, _)
RECURSIVE DictBody(_, _, _, _)

\* the loop of SequenceToXml: '\n' and each element's XML
SequenceBody(s, i, indent_num) ==
  IF i > Len(s) THEN << >>
  ELSE <<Chars(<<NL>>)>> \o GetXmlStr(s[i], indent_num + 1)
         \o SequenceBody(s, i + 1, indent_num)

SequenceToXml(sequence, indent_num) ==
  <<Chars(Indent(indent_num)), Open("array")>>
    \o SequenceBody(sequence, 1, indent_num)
    \o <<Chars(<<NL>> \o Indent(indent_num)), Close("array")>>

\* the loop of DictToXml: a <key> line and the value's XML per entry
DictBody(f, order, i, indent_num) ==
  IF i > Len(order) THEN << >>
  ELSE <<Chars(<<NL>> \o Indent(indent_num + 1)), Open("key"),
         Chars(KeyText(order[i])), Close("key"), Chars(<<NL>>)>>
         \o GetXmlStr(f[order[i]], indent_num + 1)
         \o DictBody(f, order, i + 1, indent_num)

DictToXml(xml_dict, indent_num) ==
  <<Chars(Indent(indent_num)), Open("dict")>>
    \o DictBody(xml_dict, KeyOrder(xml_dict), 1, indent_num)
    \o <<Chars(<<NL>> \o Indent(indent_num)), Close("dict")>>

GetXmlStr(value, indent_num) ==
  LET indent == Chars(Indent(indent_num)) IN
  CASE value.t = "list" -> SequenceToXml(value.v, indent_num)
    [] value.t = "dict" -> DictToXml(value.v, indent_num)
    [] value.t \in {"str", "unicode"} ->
         <<indent, Open("string"), Chars(value.v), Close("string")>>
    [] value.t = "int" ->
         <<indent, Open("integer"), Chars(IntToText(value.v)), Close("integer")>>
    [] value.t = "float" ->
         <<indent, Open("real"), Chars(FormatFloat(value.v)), Close("real")>>
    [] value.t = "bool" ->
         <<indent, EmptyTag(IF value.v THEN "true" ELSE "false")>>
    [] value.t = "datetime" ->
         <<indent, Open("date"), Chars(FormatDate(value.v)), Close("date")>>
    [] value.t = "NoneType" ->
         <<indent, Open("string"), Close("string")>>
    [] value.t = "AppleUid" ->
         <<indent, Open("dict"), Open("key"), Chars(<<"C", "F", "$", "U", "I", "D">>),
           Close("key"), Open("integer"), Chars(IntToText(value.v)),
           Close("integer"), Close("dict")>>
    [] value.t = "AppleData" ->
         <<indent, Open("data"), Chars(B64Encode(value.v)), Close("data")>>
    [] OTHER -> <<Raise>>

(***************************************************************************)
(* The XML decoder.  A handler takes the object's parse fields as a record *)
(*   [mode, value, key, plist, version, encoding, err]                     *)
(* (the three stacks, _plist, _plist_version, _plist_xml_encoding and the  *)
(* exception raised, "" when none) and gives the record after the call.    *)
(***************************************************************************)
APPLE_PLIST_ELEMENTS ==
  {"plist", "array", "dict", "key", "string", "integer", "date", "false",
   "true", "data"}

Push(s, x) == Append(s, x)
Pop(s) == SubSeq(s, 1, Len(s) - 1)
Top(s) == s[Len(s)]

Failed(st, e) == [st EXCEPT !.err = e]

\* datetime.strptime(date_str, PLIST_DATE_FORMAT)
ParseDate(txt) ==
  LET num(i, j) == DigitsVal(SubSeq(txt, i, j))
      shape == /\ Len(txt) = 20
               /\ AllDigits(SubSeq(txt, 1, 4)) /\ txt[5] = "-"
               /\ AllDigits(SubSeq(txt, 6, 7)) /\ txt[8] = "-"
               /\ AllDigits(SubSeq(txt, 9, 10)) /\ txt[11] = "T"
               /\ AllDigits(SubSeq(txt, 12, 13)) /\ txt[14] = ":"
               /\ AllDigits(SubSeq(txt, 15, 16)) /\ txt[17] = ":"
               /\ AllDigits(SubSeq(txt, 18, 19)) /\ txt[20] = "Z"
  IN IF shape /\ num(1, 4) >= 1 /\ num(6, 7) \in 1..12 /\ num(9, 10) \in 1..31
        /\ num(12, 13) \in 0..23 /\ num(15, 16) \in 0..59 /\ num(18, 19) \in 0..61
     THEN [ok |-> TRUE,
           v |-> <<num(1, 4), num(6, 7), num(9, 10), num(12, 13), num(15, 16),
                   num(18, 19)>>]
     ELSE [ok |-> FALSE, v |-> << >>]

\* base64.b64decode, the inverse of the abstraction B64Encode
ParseData(txt) ==
  IF Len(txt) >= 2 /\ txt[1] = "{" /\ txt[Len(txt)] = "}"
  THEN [ok |-> TRUE, v |-> SubSeq(txt, 2, Len(txt) - 1)]
  ELSE [ok |-> FALSE, v |-> << >>]

XmlDeclHandler(st, encoding) == [st EXCEPT !.encoding = encoding]

\* a variant of the start handler that pushes the element's mode before it
\* looks at the allow-list and at the bottom of the mode stack
StartElementHandler_PushFirst(st, name, version) ==
  IF name \notin APPLE_PLIST_ELEMENTS
  THEN Failed([st EXCEPT !.mode = Push(@, name)], "MalformedPlistError")
  ELSE IF name = "plist"
  THEN [st EXCEPT !.mode = Push(@, "plist"),
                  !.version = IF version # << >> THEN version ELSE @]
  ELSE IF st.mode = << >> \/ Head(st.mode) # "plist"
  THEN Failed([st EXCEPT !.mode = Push(@, name)], "MalformedPlistError")
  ELSE IF name = "key" THEN [st EXCEPT !.mode = Push(@, name)]
  ELSE IF name = "dict"
  THEN [st EXCEPT !.mode = Push(@, name), !.value = Push(@, EmptyDict)]
  ELSE IF name = "array"
  THEN [st EXCEPT !.mode = Push(@, name), !.value = Push(@, EmptyList)]
  ELSE IF name \in {"string", "integer", "date", "data"}
  THEN [st EXCEPT !.mode = Push(@, name)]
  ELSE [st EXCEPT !.mode = Push(Push(@, name), "value"),
                  !.value = Push(@, PyBool(name = "true"))]

StartElementHandler(st, name, version) ==
  IF name \notin APPLE_PLIST_ELEMENTS THEN Failed(st, "MalformedPlistError")
  ELSE IF name = "plist"
  THEN [st EXCEPT !.mode = Push(@, "plist"),
                  !.version = IF version # << >> THEN version ELSE @]
  ELSE IF st.mode = << >> \/ Head(st.mode) # "plist"
  THEN Failed(st, "MalformedPlistError")
  ELSE IF name = "key" THEN [st EXCEPT !.mode = Push(@, name)]
  ELSE IF name = "dict"
  THEN [st EXCEPT !.mode = Push(@, name), !.value = Push(@, EmptyDict)]
  ELSE IF name = "array"
  THEN [st EXCEPT !.mode = Push(@, name), !.value = Push(@, EmptyList)]
  ELSE IF name \in {"string", "integer", "date", "data"}
  THEN [st EXCEPT !.mode = Push(@, name)]
  ELSE IF name \in {"true", "false"}
  THEN [st EXCEPT !.mode = Push(Push(@, name), "value"),
                  !.value = Push(@, PyBool(name = "true"))]
  ELSE Failed(st, "NotImplementedError")

CharacterDataHandler(st, value) ==
  IF value = << >> \/ value = <<NL>> THEN st
  ELSE IF st.mode = << >> THEN Failed(st, "IndexError")
  ELSE LET cur == Top(st.mode) IN
  IF cur \in {"dict", "array"} THEN st
  ELSE IF cur = "key" THEN [st EXCEPT !.key = Push(@, value)]
  ELSE IF cur = "string"
  THEN [st EXCEPT !.value = Push(@, PyUnicode(value)), !.mode = Push(@, "value")]
  ELSE IF cur = "integer"
  THEN IF ParseInt(value).ok
       THEN [st EXCEPT !.value = Push(@, PyInt(ParseInt(value).v)),
                       !.mode = Push(@, "value")]
       ELSE Failed(st, "ValueError")
  ELSE IF cur = "date"
  THEN IF ParseDate(value).ok
       THEN [st EXCEPT !.value = Push(@, PyDate(ParseDate(value).v)),
                       !.mode = Push(@, "value")]
       ELSE Failed(st, "ValueError")
  ELSE IF cur = "data"
  THEN IF ParseData(value).ok
       THEN [st EXCEPT !.value = Push(@, PyStr(ParseData(value).v)),
                       !.mode = Push(@, "value")]
       ELSE Failed(st, "TypeError")
  ELSE st

\* the second half of _EndElementHandler: the mode has been popped to s1.mode
\* and `value` is what the closed element produced
EndElementStore(s1, value, release_key) ==
  IF s1.mode = << >> THEN Failed(s1, "IndexError")
  ELSE IF Top(s1.mode) = "plist"
  THEN [s1 EXCEPT !.value = Push(@, value), !.mode = Push(@, "value")]
  ELSE LET s2 ==
         IF Top(s1.mode) = "dict"
         THEN IF s1.value = << >> \/ s1.key = << >> THEN Failed(s1, "IndexError")
              ELSE IF Top(s1.value).t = "dict"
              THEN [s1 EXCEPT !.value =
                      Push(Pop(@), DictSet(Top(@), KeyOfText(Top(s1.key)), value))]
              ELSE Failed(s1, "TypeError")
         ELSE IF Top(s1.mode) = "array"
         THEN IF s1.value = << >> THEN Failed(s1, "IndexError")
              ELSE IF Top(s1.value).t = "list"
              THEN [s1 EXCEPT !.value =
                      Push(Pop(@), PyList(Append(Top(@).v, value)))]
              ELSE Failed(s1, "AttributeError")
         ELSE s1
       IN IF s2.err # "" \/ ~release_key THEN s2
          ELSE IF s2.key = << >> THEN Failed(s2, "IndexError")
          ELSE [s2 EXCEPT !.key = Pop(@)]

EndElementHandler(st, name) ==
  IF name = "plist"
  THEN IF Len(st.value) > 0
       THEN [st EXCEPT !.plist = Top(st.value), !.value = Pop(@)]
       ELSE [st EXCEPT !.plist = EmptyDict]
  ELSE IF st.mode = << >> THEN Failed(st, "IndexError")
  ELSE
    LET isValue == Top(st.mode) = "value"
        takes == isValue \/ name \in {"array", "dict"}
        s0 == IF isValue THEN [st EXCEPT !.mode = Pop(@)] ELSE st
    IN IF takes /\ s0.value = << >> THEN Failed(s0, "IndexError")
       ELSE
         LET value == IF takes THEN Top(s0.value) ELSE PyNone
             sv == IF takes THEN [s0 EXCEPT !.value = Pop(@)] ELSE s0
         IN IF name # "key" /\ Len(sv.mode) < 2 THEN Failed(sv, "IndexError")
            ELSE
              LET release_key ==
                    name # "key" /\ sv.mode[Len(sv.mode) - 1] = "dict"
              IN IF sv.mode = << >> THEN Failed(sv, "IndexError")
                 ELSE EndElementStore([sv EXCEPT !.mode = Pop(@)], value,
                                      release_key)

(***************************************************************************)
(* The tokenizer (xml.parsers.expat) over a buffer.  Parse() is called     *)
(* without the is-final flag, so a text that ends early raises nothing.    *)
(***************************************************************************)
IsBlank(txt) == \A i \in 1..Len(txt) : txt[i] \in {SP, NL}

\* the first place of a character that cannot stand in character data, or 0
RECURSIVE FirstMarkup(_, _)
FirstMarkup(txt, i) ==
  IF i > Len(txt) THEN 0
  ELSE IF txt[i] \in {"<", "&"} THEN i
  ELSE FirstMarkup(txt, i + 1)

\* the pieces in which character data reaches the handler: each line break
\* on its own, the runs between them whole
RECURSIVE Chunks(_, _)
Chunks(txt, run) ==
  IF txt = << >> THEN (IF run = << >> THEN << >> ELSE <<run>>)
  ELSE IF txt[1] = NL
  THEN (IF run = << >> THEN << >> ELSE <<run>>) \o <<(<<NL>>)>> \o Chunks(Tail(txt), << >>)
  ELSE Chunks(Tail(txt), Append(run, txt[1]))

RECURSIVE FeedChunks(_, _, _)
FeedChunks(st, chunks, i) ==
  IF i > Len(chunks) \/ st.err # "" THEN st
  ELSE FeedChunks(CharacterDataHandler(st, chunks[i]), chunks, i + 1)

\* one run of character data
ExpatText(st, txt, inRoot, rootDone) ==
  LET bad == FirstMarkup(txt, 1)
      good == IF bad = 0 THEN txt ELSE SubSeq(txt, 1, bad - 1)
      s1 == IF inRoot THEN FeedChunks(st, Chunks(good, << >>), 1)
            ELSE IF IsBlank(good) THEN st
            ELSE Failed(st, "ExpatError")
  IN IF s1.err = "" /\ bad # 0 THEN Failed(s1, "ExpatError") ELSE s1

RECURSIVE ExpatRun(_, _, _, _, _)
\* the lexemes from the i-th on; `open` is the stack of open elements
ExpatRun(st, lex, i, open, rootDone) ==
  IF i > Len(lex) \/ st.err # "" THEN st
  ELSE
    LET x == lex[i] IN
    CASE x.k = "text" ->
           ExpatRun(ExpatText(st, x.c, open # << >>, rootDone), lex, i + 1, open,
                    rootDone)
      [] x.k = "open" ->
           IF rootDone THEN Failed(st, "ExpatError")
           ELSE ExpatRun(StartElementHandler(st, x.n, x.c), lex, i + 1,
                         Push(open, x.n), rootDone)
      [] x.k = "empty" ->
           IF rootDone THEN Failed(st, "ExpatError")
           ELSE LET s1 == StartElementHandler(st, x.n, x.c)
                    s2 == IF s1.err # "" THEN s1 ELSE EndElementHandler(s1, x.n)
                IN ExpatRun(s2, lex, i + 1, open, open = << >>)
      [] x.k = "close" ->
           IF open = << >> \/ Top(open) # x.n THEN Failed(st, "ExpatError")
           ELSE ExpatRun(EndElementHandler(st, x.n), lex, i + 1, Pop(open),
                         Len(open) = 1)
      [] OTHER -> Failed(st, "ExpatError")

(***************************************************************************)
(* Buffers: what LoadPlist is given and what _plist_xml / _plist_bin hold. *)
(*   [t |-> "None"]  no buffer (Python's None)                             *)
(*   [t |-> "xml"]   a text: enc is the encoding its XML declaration names *)
(*                   ("" when it has none), lex its lexemes                *)
(*   [t |-> "raw"]   bytes that are no XML text                            *)
(***************************************************************************)
\* py is the Python type of the buffer object
NoBuffer ==
  [t |-> "None", py |-> "NoneType", enc |-> "", lex |-> << >>, bytes |-> << >>]

XmlText(enc, lex) ==
  [t |-> "xml", py |-> "str", enc |-> enc, lex |-> lex, bytes |-> << >>]

Raw(bytes) ==
  [t |-> "raw", py |-> "str", enc |-> "", lex |-> << >>, bytes |-> bytes]

\* parser.Parse(self._plist_xml) with the four handlers of _GetParser.
\* Bytes that start no markup are an unfinished token to the tokenizer: no
\* event and no error.
ExpatParse(st, buf) ==
  IF buf.t = "None" THEN Failed(st, "TypeError")
  ELSE IF buf.t = "raw"
  THEN IF \A i \in 1..Len(buf.bytes) : buf.bytes[i] \in (45..46) \cup (97..122) THEN st
       ELSE Failed(st, "ExpatError")
  ELSE ExpatRun(IF buf.enc # "" THEN XmlDeclHandler(st, buf.enc) ELSE st,
                buf.lex, 1, << >>, FALSE)

(***************************************************************************)
(* Bytes.                                                                  *)
(***************************************************************************)
Min(a, b) == IF a <= b THEN a ELSE b

\* F of a value that is computed once and used in several places
With(val, F(_)) == F(val)

\* buf[i:j], a slice of a Python string (first index 0, cut to the string)
Slice(buf, i, j) ==
  IF i >= Len(buf) \/ j <= i THEN << >> ELSE SubSeq(buf, i + 1, Min(j, Len(buf)))

\* buf[-n:]
LastBytes(buf, n) == IF Len(buf) <= n THEN buf ELSE SubSeq(buf, Len(buf) - n + 1, Len(buf))

RECURSIVE BigEndian(_)
\* the unsigned big-endian number some bytes spell
BigEndian(bytes) ==
  IF bytes = << >> THEN 0
  ELSE 256 * BigEndian(SubSeq(bytes, 1, Len(bytes) - 1)) + bytes[Len(bytes)]

RECURSIVE Pow2(_)
Pow2(n) == IF n <= 0 THEN 1 ELSE 2 * Pow2(n - 1)

\* the printable characters, from code 32 on (the double quote, the
\* backslash and the backquote are spelled dq, bs and bt)
AsciiChars ==
  <<" ", "!", "dq", "#", "$", "%", "&", "'", "(", ")", "*", "+", ",", "-", ".", "/",
    "0", "1", "2", "3", "4", "5", "6", "7", "8", "9", ":", ";", "<", "=", ">", "?",
    "@", "A", "B", "C", "D", "E", "F", "G", "H", "I", "J", "K", "L", "M", "N", "O",
    "P", "Q", "R", "S", "T", "U", "V", "W", "X", "Y", "Z", "[", "bs", "]", "^", "_",
    "bt", "a", "b", "c", "d", "e", "f", "g", "h", "i", "j", "k", "l", "m", "n", "o",
    "p", "q", "r", "s", "t", "u", "v", "w", "x", "y", "z", "{", "|", "}", "~">>

\* the character of a byte; a byte outside the printable range is shown as a
\* mark of its own
Chr(b) == IF b = 10 THEN NL
          ELSE IF b - 31 \in 1..Len(AsciiChars) THEN AsciiChars[b - 31]
          ELSE "xx"

BytesToText(bytes) == [i \in 1..Len(bytes) |-> Chr(bytes[i])]

\* ord() of each character of a text made of printable characters
Ord(c) == IF c = NL THEN 10
          ELSE 31 + (CHOOSE i \in 1..Len(AsciiChars) : AsciiChars[i] = c)

TextToBytes(txt) == [i \in 1..Len(txt) |-> Ord(txt[i])]

(***************************************************************************)
(* The binary decoder.  __bin is the record                                *)
(*   [f |-> the named entries ('magic', 'v', the footer's fields),         *)
(*    memo |-> the entries keyed by a byte offset]                         *)
(* and a loader gives [bin, x, err]: __bin after the call, the value       *)
(* returned and the exception raised ("" when none).  While a decode runs  *)
(* the record has one more field, loads: the offsets for which             *)
(* _BinLoadObject called the loader of the object's type, in call order.   *)
(***************************************************************************)
COUNT_INT_FOLLOWS == 15

BPLIST_MAGIC == <<98, 112, 108, 105, 115, 116>>

BPLIST_VERSIONS == {<<48, 48>>}

\* the sizes INT_SIZE_FORMAT knows
INT_SIZES == {1, 2, 4, 8}

\* the sizes FLOAT_SIZE_FORMAT knows
FLOAT_SIZES == {4, 8}

EmptyBin == [f |-> << >>, memo |-> << >>]

BinPut(bin, name, x) ==
  [bin EXCEPT !.f = [j \in (DOMAIN @) \cup {name} |-> IF j = name THEN x ELSE @[j]]]

MemoPut(bin, ofs, x) ==
  [bin EXCEPT !.memo = [j \in (DOMAIN @) \cup {ofs} |-> IF j = ofs THEN x ELSE @[j]]]

Result(bin, x, err) == [bin |-> bin, x |-> x, err |-> err]

\* __bin at the start of a decode, with no loader called yet
Counting(bin) == [f |-> bin.f, memo |-> bin.memo, loads |-> << >>]

\* the call of a type's loader for the object at ofs is noted
Loading(bin, ofs) == [bin EXCEPT !.loads = Append(@, ofs)]

\* __bin as the object keeps it
Stored(bin) == [f |-> bin.f, memo |-> bin.memo]

\* struct.unpack('6s2s', header[0:8]) and the two tests of _BinLoadHeader:
\* the exception raised, "" when the header is a supported one
HeaderError(buf) ==
  LET header == Slice(buf, 0, 8) IN
  IF Len(header) # 8 THEN "MalformedPlistError"
  ELSE IF SubSeq(header, 1, 6) # BPLIST_MAGIC THEN "BinaryPlistHeaderError"
  ELSE IF SubSeq(header, 7, 8) \notin BPLIST_VERSIONS THEN "BinaryPlistVersionError"
  ELSE ""

\* _BinLoadHeader() on self._plist_bin
BinLoadHeader(bin, buf) ==
  IF HeaderError(buf) # "" THEN Result(bin, PyNone, HeaderError(buf))
  ELSE Result(BinPut(BinPut(bin, "magic", SubSeq(buf, 1, 6)), "v", SubSeq(buf, 7, 8)),
              PyNone, "")

BinLoadFooter(bin, buf) ==
  LET a == LastBytes(buf, 32) IN
  IF Len(a) # 32 THEN Result(bin, PyNone, "MalformedPlistError")
  ELSE Result(
         BinPut(BinPut(BinPut(BinPut(BinPut(BinPut(bin,
           "sortVersion", a[6]), "offsetIntSize", a[7]), "objectRefSize", a[8]),
           "numObjects", BigEndian(SubSeq(a, 9, 16))),
           "topObject", BigEndian(SubSeq(a, 17, 24))),
           "offsetTableOffset", BigEndian(SubSeq(a, 25, 32))),
         PyNone, "")

\* _BinLoadOffsetTable: [table, err]; the table is _object_offset as far as
\* the loop filled it
BinLoadOffsetTable(bin, buf) ==
  LET ofs == bin.f["offsetTableOffset"]
      int_size == bin.f["offsetIntSize"]
      n == bin.f["numObjects"]
      whole(i) == Len(Slice(buf, ofs + i * int_size, ofs + (i + 1) * int_size)) = int_size
      \* the entries read before the first one that does not fit the buffer
      got == IF \A i \in 0..(n - 1) : whole(i) THEN n
             ELSE CHOOSE i \in 0..(n - 1) : ~whole(i) /\ \A j \in 0..(i - 1) : whole(j)
  IN IF int_size \notin INT_SIZES THEN [table |-> << >>, err |-> "KeyError"]
     ELSE [table |-> [i \in 0..(got - 1) |->
                        BigEndian(Slice(buf, ofs + i * int_size, ofs + (i + 1) * int_size))],
           err |-> IF got = n THEN "" ELSE "MalformedPlistError"]

\* _BinGetCount: [l, c, err], the bytes used and the count
BinGetCount(buf, ofs) ==
  IF Slice(buf, ofs, ofs + 1) = << >> THEN [l |-> 0, c |-> 0, err |-> "struct.error"]
  ELSE LET l == Pow2(buf[ofs + 1] % 16) IN
       IF Len(Slice(buf, ofs + 1, ofs + 1 + l)) # l
       THEN [l |-> 0, c |-> 0, err |-> "TypeError"]
       ELSE [l |-> l + 1, c |-> BigEndian(Slice(buf, ofs + 1, ofs + 1 + l)), err |-> ""]

\* the start of a counted payload: [pos, c, err]
BinCount(buf, ofs, objarg) ==
  IF objarg = COUNT_INT_FOLLOWS
  THEN LET g == BinGetCount(buf, ofs + 1) IN [pos |-> ofs + 1 + g.l, c |-> g.c, err |-> g.err]
  ELSE [pos |-> ofs + 1, c |-> objarg, err |-> ""]

\* struct.unpack('>f' / '>d'): the value in millionths.  Only the bit
\* patterns listed are decoded; any other stands as -1 millionth.
FloatOfBytes(bytes) ==
  CASE bytes \in {<<0, 0, 0, 0>>, <<0, 0, 0, 0, 0, 0, 0, 0>>} -> 0
    [] bytes \in {<<63, 128, 0, 0>>, <<63, 240, 0, 0, 0, 0, 0, 0>>} -> 1000000
    [] bytes \in {<<63, 192, 0, 0>>, <<63, 248, 0, 0, 0, 0, 0, 0>>} -> 1500000
    [] bytes \in {<<64, 0, 0, 0>>, <<64, 0, 0, 0, 0, 0, 0, 0>>} -> 2000000
    [] OTHER -> 0 - 1

\* EPOCH + timedelta(seconds=f), for whole seconds below a minute; the
\* result carries the UTC tzinfo of EPOCH
DateOfSeconds(micro) ==
  PyDate(<<2001, 1, 1, 0, 0, (micro \div 1000000) % 60, "UTC">>)

\* what a set or a dict key cannot be
Unhashable(x) == x.t \in {"list", "dict", "set"}

\* the references of a container: struct.unpack('>%d%s' % (n, fmt), bytes)
BinRefs(bytes, n, siz) ==
  IF Len(bytes) # n * siz THEN [refs |-> << >>, err |-> "struct.error"]
  ELSE [refs |-> [i \in 1..n |-> BigEndian(SubSeq(bytes, (i - 1) * siz + 1, i * siz))],
        err |-> ""]

BinLoadSimple(objarg) ==
  CASE objarg = 0 -> [x |-> PyNone, err |-> ""]
    [] objarg = 8 -> [x |-> PyBool(FALSE), err |-> ""]
    [] objarg = 9 -> [x |-> PyBool(TRUE), err |-> ""]
    [] objarg = 15 -> [x |-> PyNone, err |-> "UnboundLocalError"]
    [] OTHER -> [x |-> PyNone, err |-> "MalformedPlistError"]

\* a variant of the integer loader that reads the payload as a signed
\* two's-complement number
BinLoadInt_Signed(buf, ofs) ==
  LET g == BinGetCount(buf, ofs) IN
  IF g.err = "" /\ buf[ofs + 2] >= 128
  THEN [x |-> PyInt(g.c - 256 * Pow2(8 * (g.l - 2))), err |-> ""]
  ELSE [x |-> PyInt(g.c), err |-> g.err]

BinLoadInt(buf, ofs) ==
  LET g == BinGetCount(buf, ofs) IN [x |-> PyInt(g.c), err |-> g.err]

BinLoadUid(buf, ofs) ==
  LET g == BinGetCount(buf, ofs) IN [x |-> AppleUid(g.c), err |-> g.err]

BinLoadFloat(buf, ofs, objarg) ==
  LET c == Pow2(objarg) IN
  IF c \notin FLOAT_SIZES THEN [x |-> PyNone, err |-> "KeyError"]
  ELSE IF Len(Slice(buf, ofs + 1, ofs + 1 + c)) # c THEN [x |-> PyNone, err |-> "struct.error"]
  ELSE [x |-> PyFloat(FloatOfBytes(Slice(buf, ofs + 1, ofs + 1 + c))), err |-> ""]

BinLoadDate(buf, ofs) ==
  IF Len(Slice(buf, ofs + 1, ofs + 9)) # 8 THEN [x |-> PyNone, err |-> "struct.error"]
  ELSE [x |-> DateOfSeconds(FloatOfBytes(Slice(buf, ofs + 1, ofs + 9))), err |-> ""]

BinLoadData(buf, ofs, objarg) ==
  LET n == BinCount(buf, ofs, objarg) IN
  [x |-> AppleData(BytesToText(Slice(buf, n.pos, n.pos + n.c))), err |-> n.err]

BinLoadAsciiStr(buf, ofs, objarg) ==
  LET n == BinCount(buf, ofs, objarg) IN
  [x |-> PyStr(BytesToText(Slice(buf, n.pos, n.pos + n.c))), err |-> n.err]

\* unicode(bytes, 'utf-16be') of characters below 256; half a character at
\* the end is a UnicodeDecodeError, which is a ValueError
BinLoadUnicode(buf, ofs, objarg) ==
  LET n == BinCount(buf, ofs, objarg)
      bytes == Slice(buf, n.pos, n.pos + 2 * n.c)
  IN IF n.err # "" THEN [x |-> PyNone, err |-> n.err]
     ELSE IF Len(bytes) % 2 # 0 THEN [x |-> PyNone, err |-> "ValueError"]
     ELSE [x |-> PyUnicode([i \in 1..(Len(bytes) \div 2) |->
                              IF bytes[2 * i - 1] = 0 THEN Chr(bytes[2 * i]) ELSE "xx"]),
           err |-> ""]

\* the decoding context: the buffer and _object_offset
Ctx(buf, table) == [buf |-> buf, table |-> table]

RefSize(bin) == IF bin.f["numObjects"] > 255 THEN 2 ELSE 1

RECURSIVE BinLoadObject(_, _, _, _)
RECURSIVE BinLoadEach(_, _, _, _, _, _)
RECURSIVE BinLoadPairs(_, _, _, _, _, _, _)

\* the loop of _BinLoadArray and _BinLoadSet from the i-th reference on;
\* xs are the values taken so far
BinLoadEach(c, bin, refs, i, xs, depth) ==
  IF i > Len(refs) THEN Result(bin, PyList(xs), "")
  ELSE IF refs[i] \notin DOMAIN c.table THEN Result(bin, PyNone, "KeyError")
  ELSE With(BinLoadObject(c, bin, c.table[refs[i]], depth + 1), LAMBDA r :
         IF r.err # "" THEN r
         ELSE BinLoadEach(c, r.bin, refs, i + 1, Append(xs, r.x), depth))

\* the loop of _BinLoadDict from the i-th pair on; d is the dict so far
BinLoadPairs(c, bin, keyref, objref, i, d, depth) ==
  IF i > Len(keyref) THEN Result(bin, d, "")
  ELSE IF keyref[i] \notin DOMAIN c.table THEN Result(bin, PyNone, "KeyError")
  ELSE With(BinLoadObject(c, bin, c.table[keyref[i]], depth + 1), LAMBDA rk :
         IF rk.err # "" THEN rk
         ELSE IF objref[i] \notin DOMAIN c.table THEN Result(rk.bin, PyNone, "KeyError")
         ELSE With(BinLoadObject(c, rk.bin, c.table[objref[i]], depth + 1), LAMBDA rv :
                IF rv.err # "" THEN rv
                ELSE IF Unhashable(rk.x) THEN Result(rv.bin, PyNone, "TypeError")
                ELSE BinLoadPairs(c, rv.bin, keyref, objref, i + 1,
                                  DictSet(d, KeyOf(rk.x), rv.x), depth)))

BinLoadArray(c, bin, ofs, objarg, depth) ==
  With(BinCount(c.buf, ofs, objarg), LAMBDA n :
    With(RefSize(bin), LAMBDA siz :
      With(BinRefs(Slice(c.buf, n.pos, n.pos + siz * n.c), n.c \div siz, siz), LAMBDA r :
        IF n.err # "" THEN Result(bin, PyNone, n.err)
        ELSE IF r.err # "" THEN Result(bin, PyNone, r.err)
        ELSE BinLoadEach(c, bin, r.refs, 1, << >>, depth))))

BinLoadSet(c, bin, ofs, objarg, depth) ==
  With(BinLoadArray(c, bin, ofs, objarg, depth), LAMBDA a :
    IF a.err # "" THEN a
    ELSE IF \E i \in 1..Len(a.x.v) : Unhashable(a.x.v[i])
    THEN Result(a.bin, PyNone, "TypeError")
    ELSE Result(a.bin, PySet({a.x.v[i] : i \in 1..Len(a.x.v)}), ""))

\* _BinLoadDict reading the references as key, value, key, value, ...
BinLoadDict_Interleaved(c, bin, ofs, objarg, depth) ==
  With(BinCount(c.buf, ofs, objarg), LAMBDA n :
    With(RefSize(bin), LAMBDA siz :
      With(BinRefs(Slice(c.buf, n.pos, n.pos + 2 * siz * n.c), 2 * n.c, siz), LAMBDA r :
        IF n.err # "" THEN Result(bin, PyNone, n.err)
        ELSE IF r.err # "" THEN Result(bin, PyNone, r.err)
        ELSE BinLoadPairs(c, bin, [i \in 1..n.c |-> r.refs[2 * i - 1]],
                          [i \in 1..n.c |-> r.refs[2 * i]], 1, EmptyDict, depth))))

BinLoadDict(c, bin, ofs, objarg, depth) ==
  With(BinCount(c.buf, ofs, objarg), LAMBDA n :
    With(RefSize(bin), LAMBDA siz :
      With(BinRefs(Slice(c.buf, n.pos, n.pos + siz * n.c), n.c, siz), LAMBDA k :
        With(BinRefs(Slice(c.buf, n.pos + siz * n.c, n.pos + 2 * siz * n.c), n.c, siz),
             LAMBDA o :
          IF n.err # "" THEN Result(bin, PyNone, n.err)
          ELSE IF k.err # "" THEN Result(bin, PyNone, k.err)
          ELSE IF o.err # "" THEN Result(bin, PyNone, o.err)
          ELSE BinLoadPairs(c, bin, k.refs, o.refs, 1, EmptyDict, depth)))))

\* self._type_lookup[objtype](pos, objtype, objarg)
TypeLookup(c, bin, ofs, objtype, objarg, depth) ==
  LET leaf(r) == Result(bin, r.x, r.err) IN
  CASE objtype = 0 -> leaf(BinLoadSimple(objarg))
    [] objtype = 1 -> leaf(BinLoadInt(c.buf, ofs))
    [] objtype = 2 -> leaf(BinLoadFloat(c.buf, ofs, objarg))
    [] objtype = 3 -> leaf(BinLoadDate(c.buf, ofs))
    [] objtype = 4 -> leaf(BinLoadData(c.buf, ofs, objarg))
    [] objtype = 5 -> leaf(BinLoadAsciiStr(c.buf, ofs, objarg))
    [] objtype = 6 -> leaf(BinLoadUnicode(c.buf, ofs, objarg))
    [] objtype = 8 -> leaf(BinLoadUid(c.buf, ofs))
    [] objtype = 10 -> BinLoadArray(c, bin, ofs, objarg, depth)
    [] objtype = 12 -> BinLoadSet(c, bin, ofs, objarg, depth)
    [] objtype = 13 -> BinLoadDict(c, bin, ofs, objarg, depth)
    \* 7, 9, 11, 14, 15: _BinLoadUnused, which returns None
    [] OTHER -> Result(bin, PyNone, "")

BinLoadObject(c, bin, ofs, depth) ==
  IF ofs \in DOMAIN bin.memo THEN Result(bin, bin.memo[ofs], "")
  ELSE IF depth > MaxRecursion THEN Result(bin, PyNone, "RuntimeError")
  ELSE IF ofs >= Len(c.buf) THEN Result(bin, PyNone, "IndexError")
  ELSE With(TypeLookup(c, Loading(bin, ofs), ofs,
                       c.buf[ofs + 1] \div 16, c.buf[ofs + 1] % 16, depth),
            LAMBDA r :
         IF r.err = "" THEN Result(MemoPut(r.bin, ofs, r.x), r.x, "")
         ELSE IF r.err \in {"KeyError", "ValueError", "TypeError"}
         THEN Result(r.bin, PyNone, "MalformedPlistError")
         ELSE r)

\* _BinLoadObjects
BinLoadObjects(c, bin) ==
  IF bin.f["topObject"] \notin DOMAIN c.table THEN Result(bin, PyNone, "KeyError")
  ELSE BinLoadObject(c, bin, c.table[bin.f["topObject"]], 1)

\* _BinaryParse: [bin, table, plist, err, loads]; plist is _plist after the
\* call
BinaryParse(bin, table, plist, buf) ==
  With(BinLoadHeader(bin, buf), LAMBDA h :
    IF h.err # ""
    THEN [bin |-> h.bin, table |-> table, plist |-> plist, err |-> h.err,
          loads |-> << >>]
    ELSE With(BinLoadFooter(h.bin, buf), LAMBDA f :
      IF f.err # ""
      THEN [bin |-> f.bin, table |-> table, plist |-> plist, err |-> f.err,
            loads |-> << >>]
      ELSE With(BinLoadOffsetTable(f.bin, buf), LAMBDA t :
        IF t.err # ""
        THEN [bin |-> f.bin, table |-> t.table, plist |-> plist, err |-> t.err,
              loads |-> << >>]
        ELSE With(BinLoadObjects(Ctx(buf, t.table), Counting(f.bin)), LAMBDA o :
               [bin |-> Stored(o.bin), table |-> t.table,
                plist |-> IF o.err = "" THEN o.x ELSE plist, err |-> o.err,
                loads |-> o.bin.loads]))))

(***************************************************************************)
(* The ApplePlist object: a record of its attributes.                      *)
(***************************************************************************)
\* the attributes as Reset() leaves them; _object_offset is not among the
\* attributes Reset() touches
ResetFields(self) ==
  [self EXCEPT !.plist_bin = NoBuffer,
               !.plist_xml = NoBuffer,
               !.plist_xml_encoding = "",
               !.plist = PyNone,
               !.plist_version = << >>,
               !.current_mode = << >>,
               !.current_value = << >>,
               !.current_key = << >>,
               !.validation_hooks = << >>,
               !.bin = EmptyBin]

\* __init__() with no plist
NewObject ==
  ResetFields([plist_bin |-> NoBuffer, plist_xml |-> NoBuffer,
               plist_xml_encoding |-> "", plist |-> PyNone, plist_version |-> << >>,
               current_mode |-> << >>, current_value |-> << >>, current_key |-> << >>,
               validation_hooks |-> << >>, bin |-> EmptyBin, object_offset |-> << >>])

\* the outcome of a method: the object after the call, the exception raised
\* ("" when it returned) and the value returned
Outcome(self, err, ret) == [self |-> self, err |-> err, ret |-> ret]

\* the first eight bytes of a buffer as _BinLoadHeader(plist) reads them: an
\* XML text starts with its declaration or with its plist tag, and is longer
\* than eight bytes
SniffHeader(plist) ==
  IF plist.t = "raw" THEN HeaderError(plist.bytes) ELSE "BinaryPlistHeaderError"

LoadDocument(self, plist_xml) ==
  [ResetFields(self) EXCEPT !.plist_xml = plist_xml, !.plist_bin = NoBuffer]

LoadBinary(self, plist_bin) ==
  [ResetFields(self) EXCEPT !.plist_bin = plist_bin, !.plist_xml = NoBuffer]

\* LoadPlist with the version error taken for the header error
LoadPlist_VersionAsXml(self, plist) ==
  With(SniffHeader(plist), LAMBDA e :
    CASE e = "" -> Outcome(LoadBinary(self, plist), "", PyNone)
      [] e \in {"BinaryPlistHeaderError", "BinaryPlistVersionError"} ->
           Outcome(LoadDocument(self, plist), "", PyNone)
      [] OTHER -> Outcome(self, e, PyNone))

LoadPlist(self, plist) ==
  With(SniffHeader(plist), LAMBDA e :
    CASE e = "" -> Outcome(LoadBinary(self, plist), "", PyNone)
      [] e = "BinaryPlistHeaderError" -> Outcome(LoadDocument(self, plist), "", PyNone)
      [] e = "BinaryPlistVersionError" -> Outcome(LoadBinary(self, plist), "", PyNone)
      [] OTHER -> Outcome(self, e, PyNone))

\* what a decoder leaves: the object, the exception raised and the loader
\* calls made
Decoded(self, err, loads) == [self |-> self, err |-> err, loads |-> loads]

\* the XML branch of Parse: the handlers run on the object's own stacks
XmlParse(self) ==
  With(ExpatParse([mode |-> self.current_mode, value |-> self.current_value,
                   key |-> self.current_key, plist |-> self.plist,
                   version |-> self.plist_version,
                   encoding |-> self.plist_xml_encoding, err |-> ""],
                  self.plist_xml),
       LAMBDA st :
         Decoded([self EXCEPT !.current_mode = st.mode, !.current_value = st.value,
                              !.current_key = st.key, !.plist = st.plist,
                              !.plist_version = st.version,
                              !.plist_xml_encoding = st.encoding],
                 IF st.err = "ExpatError" THEN "MalformedPlistError" ELSE st.err,
                 << >>))

\* the binary branch of Parse
BinParse(self) ==
  With(BinaryParse(self.bin, self.object_offset, self.plist, self.plist_bin.bytes),
       LAMBDA b :
         Decoded([self EXCEPT !.bin = b.bin, !.object_offset = b.table,
                              !.plist = b.plist],
                 b.err, b.loads))

(***************************************************************************)
(* The validator.  A schema (_VALIDATE_BASIC_CONFIG) is a function from    *)
(* key records to type names; a hook is a name, and HookRaises gives the   *)
(* exception it ends with ("" when it returns).                            *)
(***************************************************************************)
ApplePlistConfig == << >>

CatalogsKey == KeyOfText(<<"c", "a", "t", "a", "l", "o", "g", "s">>)

LocationKey ==
  KeyOfText(<<"i", "n", "s", "t", "a", "l", "l", "e", "r", "_", "i", "t", "e", "m",
              "_", "l", "o", "c", "a", "t", "i", "o", "n">>)

MunkiManifestConfig == [k \in {CatalogsKey} |-> "list"]

MunkiPackageInfoConfig ==
  [k \in {CatalogsKey, LocationKey} |-> IF k = CatalogsKey THEN "list" ELSE "unicode"]

Hooks == {"hookPass", "hookRaise"}

HookRaises(h) == IF h = "hookRaise" THEN "InvalidPlistError" ELSE ""

\* is the text `part` found in the text `whole` (the `in` of two strings)
Substring(part, whole) ==
  \E i \in 0..(Len(whole) - Len(part)) : SubSeq(whole, i + 1, i + Len(part)) = part

\* _ValidateBasic from the i-th key of the config on: the exception raised
RECURSIVE ValidateBasicFrom(_, _, _, _)
ValidateBasicFrom(plist, config, order, i) ==
  IF i > Len(order) THEN ""
  ELSE LET k == order[i] IN
    CASE plist.t = "dict" ->
           IF k \notin DOMAIN plist.v THEN "InvalidPlistError"
           ELSE IF plist.v[k].t # config[k] THEN "InvalidPlistError"
           ELSE ValidateBasicFrom(plist, config, order, i + 1)
      [] plist.t = "list" ->
           IF \E j \in 1..Len(plist.v) : IsString(plist.v[j]) /\ plist.v[j].v = k.v
           THEN "TypeError" ELSE "InvalidPlistError"
      [] plist.t \in {"str", "unicode", "AppleData"} ->
           IF Substring(k.v, plist.v) THEN "TypeError" ELSE "InvalidPlistError"
      [] plist.t = "set" ->
           IF \E x \in plist.v : IsString(x) /\ x.v = k.v
           THEN "TypeError" ELSE "InvalidPlistError"
      [] OTHER -> "TypeError"

\* _ValidateBasic without the comparison of types
ValidateBasic_KeysOnly(plist, config) ==
  IF plist.t = "dict" /\ \E k \in DOMAIN config : k \notin DOMAIN plist.v
  THEN "InvalidPlistError" ELSE ""

ValidateBasic(plist, config) ==
  ValidateBasicFrom(plist, config, KeyOrder(config), 1)

\* the loop over the hooks from the i-th on: [err, log], log being the hooks
\* called
\* the loop over the hooks with every hook called, whatever the ones before
\* it raised
RunHooks_NoStop(hooks, i, log) ==
  [err |-> IF \E j \in 1..Len(hooks) : HookRaises(hooks[j]) # ""
           THEN "InvalidPlistError" ELSE "",
   log |-> hooks]

RECURSIVE RunHooks(_, _, _)
RunHooks(hooks, i, log) ==
  IF i > Len(hooks) THEN [err |-> "", log |-> log]
  ELSE IF HookRaises(hooks[i]) # ""
  THEN [err |-> HookRaises(hooks[i]), log |-> Append(log, hooks[i])]
  ELSE RunHooks(hooks, i + 1, Append(log, hooks[i]))

\* Validate with an empty root reported as contents that were never parsed
Validate_EmptyAsNotParsed(self, config) ==
  IF Falsy(self.plist)
  THEN [err |-> "PlistNotParsedError", stage |-> "empty", log |-> << >>]
  ELSE With(IF DOMAIN config # {} THEN ValidateBasic(self.plist, config) ELSE "",
            LAMBDA basic :
         IF basic # "" THEN [err |-> basic, stage |-> "basic", log |-> << >>]
         ELSE With(RunHooks(self.validation_hooks, 1, << >>), LAMBDA h :
                [err |-> h.err, stage |-> IF h.err # "" THEN "hooks" ELSE "done",
                 log |-> h.log]))

\* Validate: [err, stage, log]; stage names the step that raised
Validate(self, config) ==
  IF self.plist.t = "NoneType"
  THEN [err |-> "PlistNotParsedError", stage |-> "empty", log |-> << >>]
  ELSE IF Falsy(self.plist)
  THEN [err |-> "InvalidPlistError", stage |-> "empty", log |-> << >>]
  ELSE With(IF DOMAIN config # {} THEN ValidateBasic(self.plist, config) ELSE "",
            LAMBDA basic :
         IF basic # "" THEN [err |-> basic, stage |-> "basic", log |-> << >>]
         ELSE With(RunHooks(self.validation_hooks, 1, << >>), LAMBDA h :
                [err |-> h.err, stage |-> IF h.err # "" THEN "hooks" ELSE "done",
                 log |-> h.log]))

\* GetEncoding()
GetEncoding(self) == self.plist_xml_encoding

\* EncodeXML(): [self, err].  With an encoding found in the document, a
\* _plist_xml that is not yet a unicode object is converted to one; the
\* documents here are ASCII, so the characters stay as they are
EncodeXML(self) ==
  IF GetEncoding(self) # "" /\ self.plist_xml.py # "unicode"
  THEN IF self.plist_xml.py = "NoneType" THEN [self |-> self, err |-> "TypeError"]
       ELSE [self |-> [self EXCEPT !.plist_xml.py = "unicode"], err |-> ""]
  ELSE [self |-> self, err |-> ""]

\* Parse: [self, err, ret, stage, log, loads]; stage is "decode" when the
\* decoder raised, else the stage Validate ended in
Parse(self, config) ==
  With(IF self.plist_bin.t = "raw" /\ self.plist_bin.bytes # << >>
       THEN BinParse(self) ELSE XmlParse(self),
       LAMBDA d :
         IF d.err # ""
         THEN [self |-> d.self, err |-> d.err, ret |-> PyNone, stage |-> "decode",
               log |-> << >>, loads |-> d.loads]
         ELSE With(Validate(d.self, config), LAMBDA w :
                IF w.err # ""
                THEN [self |-> d.self, err |-> w.err, ret |-> PyNone,
                      stage |-> w.stage, log |-> w.log, loads |-> d.loads]
                ELSE With(EncodeXML(d.self), LAMBDA e :
                       [self |-> e.self, err |-> e.err, ret |-> PyNone,
                        stage |-> IF e.err # "" THEN "encode" ELSE "done",
                        log |-> w.log, loads |-> d.loads])))

GetContents(self) ==
  IF self.plist.t = "NoneType" THEN Outcome(self, "PlistNotParsedError", PyNone)
  ELSE Outcome(self, "", self.plist)

PLIST_CONTENT_TYPES == {"list", "dict"}

\* does the value hold a unicode string (the joined XML is then unicode);
\* key records do not tell str from unicode, as the two hash alike
RECURSIVE HasUnicode(_)
HasUnicode(value) ==
  CASE value.t = "unicode" -> TRUE
    [] value.t = "list" -> \E i \in 1..Len(value.v) : HasUnicode(value.v[i])
    [] value.t = "dict" -> \E k \in DOMAIN value.v : HasUnicode(value.v[k])
    [] OTHER -> FALSE

\* PLIST_HEAD, the XML of the root and PLIST_FOOT
XmlDocument(str_xml) ==
  XmlText("UTF-8",
          <<[k |-> "open", n |-> "plist", c |-> <<"1", ".", "0">>], Chars(<<NL>>)>>
            \o str_xml \o <<Chars(<<NL>>), Close("plist"), Chars(<<NL>>)>>)

\* GetXml without the test of the root's type
GetXml_AnyRoot(self) ==
  IF self.plist.t = "NoneType" THEN Outcome(self, "PlistNotParsedError", PyNone)
  ELSE With(GetXmlStr(self.plist, 1), LAMBDA str_xml :
         IF HasRaise(str_xml) THEN Outcome(self, "PlistError", PyNone)
         ELSE Outcome(self, "",
                      [XmlDocument(str_xml) EXCEPT
                         !.py = IF HasUnicode(self.plist) THEN "unicode" ELSE "str"]))

\* GetXml giving back what was written before a value without an XML form
\* was met
GetXml_Partial(self) ==
  IF self.plist.t = "NoneType" THEN Outcome(self, "PlistNotParsedError", PyNone)
  ELSE IF self.plist.t \notin PLIST_CONTENT_TYPES THEN Outcome(self, "PlistError", PyNone)
  ELSE With(GetXmlStr(self.plist, 1), LAMBDA str_xml :
         Outcome(self, "",
                 [XmlDocument(str_xml) EXCEPT
                    !.py = IF HasUnicode(self.plist) THEN "unicode" ELSE "str"]))

GetXml(self) ==
  IF self.plist.t = "NoneType" THEN Outcome(self, "PlistNotParsedError", PyNone)
  ELSE IF self.plist.t \notin PLIST_CONTENT_TYPES THEN Outcome(self, "PlistError", PyNone)
  ELSE With(GetXmlStr(self.plist, 1), LAMBDA str_xml :
         IF HasRaise(str_xml) THEN Outcome(self, "PlistError", PyNone)
         ELSE Outcome(self, "",
                      [XmlDocument(str_xml) EXCEPT
                         !.py = IF HasUnicode(self.plist) THEN "unicode" ELSE "str"]))

\* SetContents with the assignment to _plist made before the type is looked at
SetContents_StoreFirst(self, config, plist_obj) ==
  IF plist_obj.t \notin PLIST_CONTENT_TYPES
  THEN [self |-> [self EXCEPT !.plist = plist_obj], err |-> "PlistError",
        ret |-> PyNone, stage |-> "none", log |-> << >>, loads |-> << >>]
  ELSE With([self EXCEPT !.plist = plist_obj], LAMBDA s1 :
         With(GetXml(s1), LAMBDA x :
           IF x.err # ""
           THEN [self |-> s1, err |-> x.err, ret |-> PyNone, stage |-> "none",
                 log |-> << >>, loads |-> << >>]
           ELSE Parse([s1 EXCEPT !.plist_xml = x.ret], config)))

\* SetContents: [self, err, ret, stage, log, loads]
SetContents(self, config, plist_obj) ==
  IF plist_obj.t \notin PLIST_CONTENT_TYPES
  THEN [self |-> self, err |-> "PlistError", ret |-> PyNone, stage |-> "none",
        log |-> << >>, loads |-> << >>]
  ELSE With([self EXCEPT !.plist = plist_obj], LAMBDA s1 :
         With(GetXml(s1), LAMBDA x :
           IF x.err # ""
           THEN [self |-> s1, err |-> x.err, ret |-> PyNone, stage |-> "none",
                 log |-> << >>, loads |-> << >>]
           ELSE Parse([s1 EXCEPT !.plist_xml = x.ret], config)))

AddValidationHook(self, method) ==
  Outcome([self EXCEPT !.validation_hooks = Append(@, method)], "", PyNone)

(***************************************************************************)
(* Equality of Python values: 'a' == u'a'.                                 *)
(***************************************************************************)
RECURSIVE Norm(_)
Norm(x) ==
  CASE x.t = "str" -> PyUnicode(x.v)
    [] x.t = "list" -> PyList([i \in 1..Len(x.v) |-> Norm(x.v[i])])
    [] x.t = "dict" -> PyDict([k \in DOMAIN x.v |-> Norm(x.v[k])])
    [] OTHER -> x

PyEq(a, b) == Norm(a) = Norm(b)

(***************************************************************************)
(* The values and buffers the calls are made with.                         *)
(***************************************************************************)
Key(c) == KeyOfText(<<c>>)

V_Dict == PyDict([k \in {Key("a")} |-> PyInt(1)])

V_Manifest == PyDict([k \in {CatalogsKey} |-> PyList(<<PyStr(<<"x">>)>>)])

V_BadManifest == PyDict([k \in {CatalogsKey} |-> PyStr(<<"x">>)])

V_PackageInfo ==
  PyDict([k \in {CatalogsKey, LocationKey} |->
            IF k = CatalogsKey
            THEN PyList(<<PyBool(TRUE), PyDate(<<2011, 3, 4, 5, 6, 7>>), PyInt(12)>>)
            ELSE PyStr(<<"p">>)])

V_Real == PyList(<<PyFloat(1500000)>>)

V_EmptyString == PyList(<<PyStr(<< >>)>>)

\* trees of String, Integer, Real, Boolean, Date, Array and Dict with an
\* Array root or a non-empty Dict root
RoundTripValues == {V_Manifest, V_BadManifest, V_PackageInfo, V_Real, V_EmptyString}

\* roots that are neither a list nor a dict
OtherRoots == {PyUnicode(<<"a">>), PyNone}

SetInputs == {V_Manifest} \cup OtherRoots

\* the document the encoder writes for a value
DocOf(value) == XmlDocument(GetXmlStr(value, 1))

\* a document followed by text after its root element
JunkAfterRoot ==
  XmlText("UTF-8", DocOf(V_Dict).lex \o <<Chars(<<"x">>)>>)

XmlInputs == {DocOf(value) : value \in RoundTripValues} \cup {JunkAfterRoot}

\* {'a': 1} as a binary plist
BinDict ==
  <<98, 112, 108, 105, 115, 116, 48, 48, 209, 1, 2, 81, 97, 16, 1, 8, 11, 13,
    0, 0, 0, 0, 0, 0, 1, 1, 0, 0, 0, 0, 0, 0, 0, 3, 0, 0, 0, 0, 0, 0, 0, 0,
    0, 0, 0, 0, 0, 0, 0, 15>>

\* buffers that do not start with the magic
NoMagicInputs == {Raw(<< >>), Raw(TextToBytes(<<"n", "o", "t", "-", "a", "-", "p", "l", "i", "s", "t">>))}

\* buffers that start with the magic: one with a version that is not
\* supported and one binary plist
MagicInputs == {Raw(TextToBytes(<<"b", "p", "l", "i", "s", "t", "9", "9">>)), Raw(BinDict)}

LoadInputs == XmlInputs \cup NoMagicInputs \cup MagicInputs

\* a number as `width` big-endian bytes
RECURSIVE Be(_, _)
Be(n, width) == IF width = 0 THEN << >> ELSE Append(Be(n \div 256, width - 1), n % 256)

RECURSIVE Flatten(_)
Flatten(seqs) == IF seqs = << >> THEN << >> ELSE Head(seqs) \o Flatten(Tail(seqs))

\* a binary plist: the header, the objects one after the other, an offset
\* table of numObjects one-byte entries and the footer.  Object 0 is the top
\* object; the entries past the last object name the last object.
BinFile(objects, numObjects) ==
  LET ofs(i) == 8 + Len(Flatten(SubSeq(objects, 1, i)))
      body == Flatten(objects)
      table == [i \in 1..numObjects |->
                  IF i <= Len(objects) THEN ofs(i - 1) ELSE ofs(Len(objects) - 1)]
  IN Raw(BPLIST_MAGIC \o <<48, 48>> \o body \o table
         \o <<0, 0, 0, 0, 0, 0, 1, IF numObjects > 255 THEN 2 ELSE 1>>
         \o Be(numObjects, 8) \o Be(0, 8) \o Be(8 + Len(body), 8))

\* the objects of the files: an integer, a one-character ASCII string
BinInt(n) == <<16, n>>
BinChar(c) == <<81, Ord(c)>>

\* [7, 7]: two slots of an array name one object
B_Shared == BinFile(<< <<162, 1, 1>>, BinInt(7) >>, 2)

\* an array whose only slot names the array itself
B_SelfRef == BinFile(<< <<161, 0>> >>, 1)

\* [7, 7, 9] with the count given after the marker (nibble 15, then 0x10 3)
B_CountFollows == BinFile(<< <<175, 16, 3, 1, 1, 2>>, BinInt(7), BinInt(9) >>, 3)

\* [7] in a file of 256 objects, where a reference takes two bytes
B_Wide == BinFile(<< <<161, 0, 1>>, BinInt(7) >>, 256)

\* {'a': 1, 'b': 2}: the key references 1, 2 and then the value references
\* 3, 4
B_Dict2 == BinFile(<< <<210, 1, 2, 3, 4>>, BinChar("a"), BinChar("b"), BinInt(1), BinInt(2) >>, 5)

\* a dict whose two key references name one string
B_DupKey == BinFile(<< <<210, 1, 1, 2, 3>>, BinChar("a"), BinInt(1), BinInt(2) >>, 4)

\* a dict whose key reference names the integer 5
B_IntKey == BinFile(<< <<209, 1, 2>>, BinInt(5), BinChar("a") >>, 3)

\* an array of one object whose marker has type tag 7
B_Unused == BinFile(<< <<161, 1>>, <<112>> >>, 2)

\* [set([7])]
B_Set == BinFile(<< <<161, 1>>, <<193, 2>>, BinInt(7) >>, 3)

\* the top object is the integer 5
B_TopInt == BinFile(<< BinInt(5) >>, 1)

\* the top object is null
B_Null == BinFile(<< <<0>> >>, 1)

\* a file with one byte replaced: the byte at offset `at` becomes `byte`
BinPatch(buf, at, byte) == Raw([buf.bytes EXCEPT ![at + 1] = byte])

\* one object, and a footer whose topObject is 5
B_TopOutside == BinPatch(B_TopInt, Len(B_TopInt.bytes) - 9, 5)

\* an array of one object whose reference names object 9
B_RefOutside == BinFile(<< <<161, 9>> >>, 1)

\* one object, and an offset table whose entry for it is 200, past the end
\* of the file
B_OffsetOutside == BinPatch(B_TopInt, 10, 200)

\* integers of one, two and four payload bytes: 255, 32768 and 2147483647
B_Int1 == BinFile(<< <<16, 255>> >>, 1)
B_Int2 == BinFile(<< <<17, 128, 0>> >>, 1)
B_Int4 == BinFile(<< <<18, 127, 255, 255, 255>> >>, 1)

BinInputs ==
  {B_Shared, B_SelfRef, B_CountFollows, B_Wide, B_Dict2, B_DupKey, B_IntKey,
   B_Unused, B_Set, B_TopInt, B_Null, B_TopOutside, B_RefOutside,
   B_OffsetOutside, B_Int1, B_Int2, B_Int4}

\* a document whose root is a string
X_StringRoot == DocOf(PyStr(<<"a">>))

\* a document whose plist element has no child
X_EmptyPlist ==
  XmlText("UTF-8", <<[k |-> "open", n |-> "plist", c |-> <<"1", ".", "0">>],
                     Close("plist"), Chars(<<NL>>)>>)

\* a text that ends before its plist element is closed
X_Unclosed ==
  XmlText("UTF-8", <<[k |-> "open", n |-> "plist", c |-> <<"1", ".", "0">>],
                     Chars(<<NL>>)>>)

\* {'a': {'b': [{'c': 1}], 'd': True}, 'e': 'x'}
V_Nested ==
  PyDict([k \in {Key("a"), Key("e")} |->
    IF k = Key("a")
    THEN PyDict([j \in {Key("b"), Key("d")} |->
           IF j = Key("b")
           THEN PyList(<<PyDict([i \in {Key("c")} |-> PyInt(1)])>>)
           ELSE PyBool(TRUE)])
    ELSE PyStr(<<"x">>)])

\* a document of dicts and an array inside one another
X_Nested == DocOf(V_Nested)

\* the document <plist version="1.0">body</plist>
X_Plist(body) ==
  XmlText("UTF-8", <<[k |-> "open", n |-> "plist", c |-> <<"1", ".", "0">>]>>
                     \o body \o <<Close("plist")>>)

\* an element with one text
X_Leaf(name, txt) == <<Open(name), Chars(txt), Close(name)>>

\* a dict with one key whose text has a line break in it
X_KeyTwoLines ==
  X_Plist(<<Open("dict")>> \o X_Leaf("key", <<"a", NL, "b">>)
          \o X_Leaf("string", <<"x">>) \o <<Close("dict")>>)

\* an array with an element that is not on the allow-list
X_RealInArray == DocOf(V_Real)

\* a dict with no plist element around it
X_NoPlist ==
  XmlText("UTF-8", <<Open("dict")>> \o X_Leaf("key", <<"a">>)
                     \o X_Leaf("integer", <<"1">>) \o <<Close("dict")>>)

\* a root element that is not on the allow-list
X_UnknownRoot == XmlText("UTF-8", <<Open("foo"), Close("foo")>>)

\* a dict whose last child is a key
X_KeyOnly ==
  X_Plist(<<Open("dict")>> \o X_Leaf("key", <<"a">>) \o <<Close("dict")>>)

\* a dict whose first child is a value
X_ValueNoKey ==
  X_Plist(<<Open("dict")>> \o X_Leaf("string", <<"x">>) \o <<Close("dict")>>)

\* a dict whose key has no text
X_EmptyKey ==
  X_Plist(<<Open("dict"), Open("key"), Close("key")>>
          \o X_Leaf("string", <<"x">>) \o <<Close("dict")>>)

XmlDecodeInputs ==
  {X_StringRoot, X_EmptyPlist, X_Unclosed, DocOf(V_Manifest),
   DocOf(V_BadManifest), X_Nested, X_KeyTwoLines, X_RealInArray, X_NoPlist,
   X_UnknownRoot, X_KeyOnly, X_ValueNoKey, X_EmptyKey}

\* the buffers the decoders are run on
DecodeInputs == BinInputs \cup {Raw(BinDict)} \cup XmlDecodeInputs

Configs == {ApplePlistConfig, MunkiManifestConfig, MunkiPackageInfoConfig}

(***************************************************************************)
(* The state: one object of a class with schema `config`, and what the     *)
(* last call on it was given and gave back.                                *)
(***************************************************************************)
VARIABLES
  config,      \* _VALIDATE_BASIC_CONFIG of the object's class
  self,        \* the attributes of the object
  op,          \* the last method called
  arg,         \* its argument
  err,         \* the exception it raised, "" when it returned
  ret,         \* the value it returned
  stage,       \* the step of Parse that ended the last Parse or SetContents
  hookLog,     \* the hooks Validate called during the last call, in order
  loads,       \* the offsets whose loaders the last call's binary decode
               \* called, in call order
  parsed,      \* history: since the last LoadPlist that returned, a Parse
               \* returned or SetContents stored contents
  registered   \* history: the hooks given to AddValidationHook so far

vars == <<config, self, op, arg, err, ret, stage, hookLog, loads, parsed, registered>>

Init ==
  /\ config \in Configs
  /\ self = NewObject
  /\ op = "init"
  /\ arg = PyNone
  /\ err = ""
  /\ ret = PyNone
  /\ stage = "none"
  /\ hookLog = << >>
  /\ loads = << >>
  /\ parsed = FALSE
  /\ registered = {}

\* the state after a call of method `name` with argument `a` that ended as
\* the outcome `r` tells
Called(name, a, r) ==
  /\ self' = r.self
  /\ op' = name
  /\ arg' = a
  /\ err' = r.err
  /\ ret' = r.ret

CallLoadPlist(plist) ==
  /\ Called("LoadPlist", plist, LoadPlist(self, plist))
  /\ stage' = "none"
  /\ hookLog' = << >>
  /\ loads' = << >>
  /\ parsed' = IF err' = "" THEN FALSE ELSE parsed
  /\ UNCHANGED <<config, registered>>

\* the step Parse ended in and the hooks it called
Ended(r) ==
  /\ stage' = r.stage
  /\ hookLog' = r.log
  /\ loads' = r.loads

CallParse ==
  /\ Len(self.current_mode) < MaxModeDepth
  /\ With(Parse(self, config), LAMBDA r : Called("Parse", PyNone, r) /\ Ended(r))
  /\ parsed' = (parsed \/ err' = "")
  /\ UNCHANGED <<config, registered>>

CallGetContents ==
  /\ Called("GetContents", PyNone, GetContents(self))
  /\ stage' = "none"
  /\ hookLog' = << >>
  /\ loads' = << >>
  /\ UNCHANGED <<config, parsed, registered>>

CallGetXml ==
  /\ Called("GetXml", PyNone, GetXml(self))
  /\ stage' = "none"
  /\ hookLog' = << >>
  /\ loads' = << >>
  /\ UNCHANGED <<config, parsed, registered>>

CallSetContents(plist_obj) ==
  /\ plist_obj.t \in PLIST_CONTENT_TYPES => Len(self.current_mode) < MaxModeDepth
  /\ With(SetContents(self, config, plist_obj),
          LAMBDA r : Called("SetContents", plist_obj, r) /\ Ended(r))
  /\ parsed' = (parsed \/ plist_obj.t \in PLIST_CONTENT_TYPES)
  /\ UNCHANGED <<config, registered>>

CallAddValidationHook(method) ==
  /\ Len(self.validation_hooks) < MaxHooks
  /\ Called("AddValidationHook", [t |-> "hook", v |-> method],
            AddValidationHook(self, method))
  /\ stage' = "none"
  /\ hookLog' = << >>
  /\ loads' = << >>
  /\ registered' = registered \cup {method}
  /\ UNCHANGED <<config, parsed>>

Next ==
  \/ \E plist \in LoadInputs : CallLoadPlist(plist)
  \/ CallParse
  \/ CallGetContents
  \/ CallGetXml
  \/ \E plist_obj \in SetInputs : CallSetContents(plist_obj)
  \/ \E method \in Hooks : CallAddValidationHook(method)

Spec == Init /\ [][Next]_vars

\* the calls that load, decode and read back
DecodeNext ==
  \/ \E plist \in DecodeInputs : CallLoadPlist(plist)
  \/ CallParse
  \/ CallGetContents
  \/ CallGetXml

DecodeSpec == Init /\ [][DecodeNext]_vars

(***************************************************************************)
(* Properties.                                                             *)
(***************************************************************************)
\* the last call ran Parse (Parse itself, or SetContents past its type test)
Parsing == op \in {"Parse", "SetContents"} /\ stage # "none"

\* the decoder returned and Validate passed its test for an empty root and
\* its static check
ChecksPassed == Parsing /\ stage \in {"hooks", "encode", "done"}

\* every key the schema requires is in the root, with a value of exactly the
\* type the schema names
Conforms(plist, schema) ==
  \A k \in DOMAIN schema :
    plist.t = "dict" /\ k \in DOMAIN plist.v /\ plist.v[k].t = schema[k]

IsPrefix(s, q) == Len(s) <= Len(q) /\ SubSeq(q, 1, Len(s)) = s

\* the last hook Validate called raised
LastHookRaised == hookLog # << >> /\ HookRaises(hookLog[Len(hookLog)]) # ""

\* the buffer does not start with the magic
NoMagic(buf) == buf.t = "xml" \/ Slice(buf.bytes, 0, 6) # BPLIST_MAGIC

\* the buffer has the magic and a two-byte version that is not supported
BadVersion(buf) ==
  /\ buf.t = "raw"
  /\ Len(buf.bytes) >= 8
  /\ SubSeq(buf.bytes, 1, 6) = BPLIST_MAGIC
  /\ SubSeq(buf.bytes, 7, 8) \notin BPLIST_VERSIONS

\* C1: XML round trip.  For every tree of RoundTripValues, a Parse of the
\* document the encoder writes for it, on an object in XML mode, gets past
\* the decoder and leaves a root equal to the tree.
C1_XmlRoundTrip ==
  \A value \in RoundTripValues :
    (op = "Parse" /\ self.plist_bin = NoBuffer /\ self.plist_xml.lex = DocOf(value).lex)
      => (stage # "decode" /\ PyEq(self.plist, value))

\* C2: after SetContents(v) has returned for a list or dict v, GetContents
\* gives v and GetXml gives the encoding of v, whatever the object had been
\* through before the call.
C2_SetContentsThenGet ==
  (op = "SetContents" /\ err = "")
    => /\ GetContents(self).err = ""
       /\ PyEq(GetContents(self).ret, arg)
       /\ GetXml(self).err = ""
       /\ GetXml(self).ret.lex = DocOf(arg).lex

\* C3: GetContents raises PlistNotParsedError unless, since the last
\* LoadPlist, a Parse has returned without raising (or SetContents has stored
\* contents); a Parse that raised makes no contents available.
C3_ContentsOnlyAfterParse ==
  (op = "GetContents" /\ ~parsed) => err = "PlistNotParsedError"

\* C4: on a new object and right after any LoadPlist, GetContents and GetXml
\* raise PlistNotParsedError and leave the object as it was.
C4_LoadDiscards ==
  [][(op \in {"init", "LoadPlist"} /\ op' \in {"GetContents", "GetXml"})
       => (err' = "PlistNotParsedError" /\ self' = self)]_vars

\* C5: LoadPlist of a buffer that does not start with the magic, of any
\* length, returns without raising and leaves the object in XML mode with the
\* buffer as its XML text and no binary buffer.
C5_NoMagicLoadsAsXml ==
  (op = "LoadPlist" /\ NoMagic(arg))
    => (err = "" /\ self.plist_xml = arg /\ self.plist_bin = NoBuffer)

C7_StaticValidation ==
  (Parsing /\ stage # "decode" /\ self.plist.t = "dict" /\ ~Falsy(self.plist))
    => /\ ChecksPassed <=> Conforms(self.plist, config)
       /\ ~Conforms(self.plist, config) => (err = "InvalidPlistError" /\ stage = "basic")

\* a schema that requires catalogs to be a list has rejected a root in which
\* it is a string
C7_Witness ==
  /\ op = "Parse"
  /\ config = MunkiManifestConfig
  /\ self.plist = PyDict([k \in {CatalogsKey} |-> PyUnicode(<<"x">>)])
  /\ err = "InvalidPlistError"
  /\ stage = "basic"

\* C8: Validate calls the hooks in the order of their registration, and only
\* once the root has passed the test for an empty root and the static check;
\* the first hook that raises makes Parse raise, and no hook after it is
\* called; when none raises, all are called.
C8_HookOrdering ==
  Parsing
    => /\ IsPrefix(hookLog, self.validation_hooks)
       /\ hookLog # << >> => (~Falsy(self.plist) /\ Conforms(self.plist, config))
       /\ \A i \in 1..(Len(hookLog) - 1) : HookRaises(hookLog[i]) = ""
       /\ LastHookRaised => (err = HookRaises(hookLog[Len(hookLog)]) /\ stage = "hooks")
       /\ ChecksPassed => (LastHookRaised \/ hookLog = self.validation_hooks)
       /\ ~ChecksPassed => hookLog = << >>

\* a hook raised, and the hook registered after it was not called
C8_Witness ==
  /\ op = "Parse"
  /\ self.validation_hooks = <<"hookRaise", "hookPass">>
  /\ hookLog = <<"hookRaise">>
  /\ err = "InvalidPlistError"

C10_SetContentsRejectsOtherRoots ==
  [][(op' = "SetContents" /\ arg'.t \notin PLIST_CONTENT_TYPES)
       => (err' = "PlistError" /\ self' = self)]_vars

\* the call was refused on an object that holds contents, a source and
\* entries on its mode stack
C10_Witness ==
  /\ op = "SetContents"
  /\ arg.t \notin PLIST_CONTENT_TYPES
  /\ err = "PlistError"
  /\ self.plist # PyNone
  /\ self.plist_xml # NoBuffer
  /\ self.current_mode # << >>

RECURSIVE HasSet(_)
HasSet(value) ==
  CASE value.t = "set" -> TRUE
    [] value.t = "list" -> \E i \in 1..Len(value.v) : HasSet(value.v[i])
    [] value.t = "dict" -> \E k \in DOMAIN value.v : HasSet(value.v[k])
    [] OTHER -> FALSE

\* C12: when the contents decoded from a binary file hold a set at any depth,
\* GetXml raises PlistError and gives back no text, and GetContents still
\* returns the contents.
C12_SetHasNoXmlForm ==
  (self.plist_bin.t = "raw" /\ HasSet(self.plist))
    => /\ op = "GetXml" => (err = "PlistError" /\ ret = PyNone)
       /\ op = "GetContents" => (err = "" /\ ret = self.plist)

\* GetXml has raised on a list that holds a set
C12_Witness ==
  /\ op = "GetXml"
  /\ self.plist = PyList(<<PySet({PyInt(7)})>>)
  /\ err = "PlistError"
  /\ ret = PyNone

\* the exception _ValidateBasic raises for a root that does not match the
\* schema
SchemaMismatch == ValidateBasic(V_BadManifest, MunkiManifestConfig)

\* Parse ran on the document whose plist element has no child
EmptyPlistParsed ==
  op = "Parse" /\ self.plist_bin = NoBuffer /\ self.plist_xml.lex = X_EmptyPlist.lex

\* C13 as stated: a Parse that Validate ends at its test for an empty root
\* (empty root, null root, no completed parse) raises an exception of another
\* class than the one raised for a schema mismatch.
C13_EmptyRootOwnKind ==
  (Parsing /\ stage = "empty") => (err # "" /\ err # SchemaMismatch)

\* C13, amended: the document whose plist element has no child gets the
\* empty dict as its root; Validate raises InvalidPlistError for an empty
\* root, the class it also raises for a schema mismatch, and raises
\* PlistNotParsedError, a class of its own, for a null root and when no parse
\* was completed.
C13_EmptyAndNullRoots ==
  /\ EmptyPlistParsed => (self.plist = EmptyDict /\ stage = "empty")
  /\ (Parsing /\ stage = "empty")
       => /\ self.plist # PyNone
               => (Falsy(self.plist) /\ err = "InvalidPlistError" /\ err = SchemaMismatch)
          /\ self.plist = PyNone
               => (err = "PlistNotParsedError" /\ err # SchemaMismatch)
  /\ (Parsing /\ stage \notin {"decode", "empty"}) => ~Falsy(self.plist)

\* the empty document has been parsed and refused
C13_Witness ==
  EmptyPlistParsed /\ self.plist = EmptyDict /\ err = "InvalidPlistError"

\* C14: when a Parse of an XML text has got past the decoder (the end of the
\* plist element was handled and the root taken), the mode stack, the value
\* stack and the key stack are empty; so it is after a Parse started by
\* SetContents and after a second Parse.
C14_StacksEmptyAfterParse ==
  (Parsing /\ self.plist_bin = NoBuffer /\ stage # "decode")
    => /\ self.current_mode = << >>
       /\ self.current_value = << >>
       /\ self.current_key = << >>

\* the last call was a Parse that ran the binary decoder as far as the
\* objects: the header, the footer and the offset table were read
BinaryDecoded ==
  /\ op = "Parse"
  /\ self.plist_bin.t = "raw"
  /\ "numObjects" \in DOMAIN self.bin.f
  /\ DOMAIN self.object_offset = 0..(self.bin.f["numObjects"] - 1)

\* C15: in one binary decode, whatever the references say (two slots naming
\* one object, a container naming itself), the loader of an object's type is
\* called at most once for an offset, and the decode ends with every offset
\* it loaded in the cache.
C15_LoadedOncePerOffset ==
  BinaryDecoded
    => /\ \A i, j \in 1..Len(loads) : loads[i] = loads[j] => i = j
       /\ stage # "decode"
            => \A i \in 1..Len(loads) : loads[i] \in DOMAIN self.bin.memo

\* C16: a binary decode of a file with a header, a footer and an offset table
\* ends, with a root or an exception, after no more loader calls than the
\* file has objects, also when a container names itself.
C16_DecodeWorkBounded ==
  BinaryDecoded => Len(loads) <= self.bin.f["numObjects"]

\* the top object of the file that was decoded, as the format lays it out:
\* the offset of its marker, the marker's type tag and argument nibble, the
\* count (in the nibble, or after it when the nibble is 15), the offset of
\* the first reference, the size of a reference and the i-th reference
TopOffset == self.object_offset[self.bin.f["topObject"]]

TopTag == self.plist_bin.bytes[TopOffset + 1] \div 16

TopNibble == self.plist_bin.bytes[TopOffset + 1] % 16

TopCountSize == Pow2(self.plist_bin.bytes[TopOffset + 2] % 16)

TopCount ==
  IF TopNibble = 15
  THEN BigEndian(Slice(self.plist_bin.bytes, TopOffset + 2, TopOffset + 2 + TopCountSize))
  ELSE TopNibble

TopRefsAt == IF TopNibble = 15 THEN TopOffset + 2 + TopCountSize ELSE TopOffset + 1

TopRefSize == IF self.bin.f["numObjects"] <= 255 THEN 1 ELSE 2

TopRef(i) ==
  BigEndian(Slice(self.plist_bin.bytes, TopRefsAt + (i - 1) * TopRefSize,
                  TopRefsAt + i * TopRefSize))

\* the value the decode has cached for object number n
ObjectValue(n) == self.bin.memo[self.object_offset[n]]

\* a binary decode of a file whose top object has the type tag `tag` and
\* names, in its first `n` references, objects of the file other than itself
TopContainer(tag, n) ==
  /\ BinaryDecoded
  /\ self.bin.f["topObject"] \in DOMAIN self.object_offset
  /\ TopOffset < Len(self.plist_bin.bytes)
  /\ TopTag = tag
  /\ \A i \in 1..n : /\ TopRef(i) \in DOMAIN self.object_offset
                      /\ TopRef(i) # self.bin.f["topObject"]

\* C17: a binary array with count c, given in the nibble or after it, decodes
\* to a list of c elements, the i-th being the value of the object the i-th
\* reference names, with references of one byte (at most 255 objects) and
\* of two bytes (more than 255 objects).
C17_ArrayByReferences ==
  TopContainer(10, TopCount)
    => /\ stage # "decode"
       /\ self.plist.t = "list"
       /\ Len(self.plist.v) = TopCount
       /\ \A i \in 1..TopCount : self.plist.v[i] = ObjectValue(TopRef(i))

\* the type tag of object number n
ObjectTag(n) == self.plist_bin.bytes[self.object_offset[n] + 1] \div 16

\* a binary decode of a file whose top object is a dict of TopCount pairs
\* whose keys are no containers
TopDict ==
  /\ TopContainer(13, 2 * TopCount)
  /\ \A i \in 1..TopCount : ObjectTag(TopRef(i)) \notin {10, 12, 13}

\* the key under which the dict files the value of the i-th key reference,
\* and the value of the i-th value reference
TopKey(i) == KeyOf(ObjectValue(TopRef(i)))

TopValue(i) == ObjectValue(TopRef(TopCount + i))

\* C18 as stated: a binary dict of count c is read as c key references
\* followed by c value references, and the decoded dict maps the value of key
\* reference i to the value of value reference i for every i, and has no
\* other entry.
C18_EveryPairKept ==
  TopDict
    => /\ stage # "decode"
       /\ self.plist.t = "dict"
       /\ DOMAIN self.plist.v = {TopKey(i) : i \in 1..TopCount}
       /\ \A i \in 1..TopCount : self.plist.v[TopKey(i)] = TopValue(i)

\* C18, amended: the references are read as c key references followed by c
\* value references and paired by position; the decoded dict has the keys the
\* key references resolve to and no other, and maps the value of key
\* reference i to the value of value reference i for every i whose key no
\* later key reference resolves to: of the pairs with one key the last is
\* kept.
C18_PairsByPosition ==
  TopDict
    => /\ stage # "decode"
       /\ self.plist.t = "dict"
       /\ DOMAIN self.plist.v = {TopKey(i) : i \in 1..TopCount}
       /\ \A i \in 1..TopCount :
            (\A j \in (i + 1)..TopCount : TopKey(j) # TopKey(i))
              => self.plist.v[TopKey(i)] = TopValue(i)

\* the dict of two pairs has been decoded
C18_Witness ==
  /\ TopDict
  /\ TopCount = 2
  /\ self.plist = PyDict([k \in {Key("a"), Key("b")} |->
                            IF k = Key("a") THEN PyInt(1) ELSE PyInt(2)])

\* every key of every dict in the value is a string
RECURSIVE StringKeysOnly(_)
StringKeysOnly(value) ==
  CASE value.t = "dict" ->
         \A k \in DOMAIN value.v : k.t = "s" /\ StringKeysOnly(value.v[k])
    [] value.t = "list" -> \A i \in 1..Len(value.v) : StringKeysOnly(value.v[i])
    [] value.t = "set" -> \A x \in value.v : StringKeysOnly(x)
    [] OTHER -> TRUE

\* C19: every dict in the contents a decode has returned has string keys
\* only; a binary dict with a key reference that resolves to an integer, a
\* boolean, null, a real, a date or a uid makes the decode raise.
C19_DictKeysAreStrings ==
  (op = "Parse" /\ stage # "decode") => StringKeysOnly(self.plist)

\* the type tags _type_lookup maps to _BinLoadUnused
UnusedTags == {7, 9, 11, 14, 15}

\* the type tag of the marker at an offset of the decoded file
TagAt(ofs) == self.plist_bin.bytes[ofs + 1] \div 16

\* C20: a binary object whose marker has a type tag that is none of the
\* defined kinds (7, 9, 11, 14 or 15) makes the decode raise
\* MalformedPlistError, and no value is cached for its offset.
C20_UnknownTagIsMalformed ==
  \A i \in 1..Len(loads) :
    (BinaryDecoded /\ TagAt(loads[i]) \in UnusedTags)
      => /\ err = "MalformedPlistError"
         /\ stage = "decode"
         /\ loads[i] \notin DOMAIN self.bin.memo

\* the top object index of the footer names an entry of the offset table
TopInTable == self.bin.f["topObject"] \in DOMAIN self.object_offset

\* the offset table's entry for the top object lies inside the buffer
TopInBuffer == TopInTable /\ TopOffset < Len(self.plist_bin.bytes)

\* the number of references the top object holds when it is a container: a
\* dict has count key references and then count value references
TopRefCount == IF TopTag = 13 THEN 2 * TopCount ELSE TopCount

\* the top object is an array, a set or a dict and one of its references
\* names an object index the offset table has no entry for
TopRefOutside ==
  /\ TopInBuffer
  /\ TopTag \in {10, 12, 13}
  /\ \E i \in 1..TopRefCount : TopRef(i) \notin DOMAIN self.object_offset

\* C21: when topObject is not below numObjects, when a reference of the top
\* container names an object index outside the offset table, or when the
\* offset table's entry for the top object is at or past the end of the
\* buffer, Parse raises MalformedPlistError and nothing else.
C21_BadIndexIsMalformed ==
  (BinaryDecoded /\ (~TopInTable \/ ~TopInBuffer \/ TopRefOutside))
    => (stage = "decode" /\ err = "MalformedPlistError")

\* the part of C21 that the code keeps: a reference outside the table
C21_RefOutsideIsMalformed ==
  (BinaryDecoded /\ TopRefOutside)
    => (stage = "decode" /\ err = "MalformedPlistError")

C21_RefOutsideReached ==
  BinaryDecoded /\ TopRefOutside /\ err = "MalformedPlistError"

C21_TopOutsideRaisesKeyError ==
  BinaryDecoded /\ ~TopInTable /\ err = "KeyError"

C21_OffsetOutsideRaisesIndexError ==
  BinaryDecoded /\ TopInTable /\ ~TopInBuffer /\ err = "IndexError"

\* the payload of the top object when it is an integer with argument n: the
\* 2**n bytes after the marker
TopPayload ==
  Slice(self.plist_bin.bytes, TopOffset + 1, TopOffset + 1 + Pow2(TopNibble))

RECURSIVE Unsigned(_)
\* the number some bytes spell, the first byte weighing most
Unsigned(bytes) ==
  IF bytes = << >> THEN 0
  ELSE Head(bytes) * Pow2(8 * (Len(bytes) - 1)) + Unsigned(Tail(bytes))

\* a binary decode of a file whose top object is an integer with its whole
\* payload in the buffer
TopInteger ==
  /\ BinaryDecoded
  /\ TopInBuffer
  /\ TopTag = 1
  /\ Len(TopPayload) = Pow2(TopNibble)

\* C22: a binary integer with argument n decodes to the unsigned big-endian
\* value of its 2**n payload bytes; the result is never negative and is
\* below 256**(2**n), also when the top bit of the payload is set.
C22_IntegerIsUnsigned ==
  TopInteger
    => /\ stage # "decode"
       /\ self.plist.t = "int"
       /\ self.plist.v = Unsigned(TopPayload)
       /\ self.plist.v >= 0
       /\ self.plist.v \div Pow2(8 * (Len(TopPayload) - 1)) <= 255

\* a two-byte integer whose top bit is set was decoded to 32768
C22_Witness ==
  /\ TopInteger
  /\ TopNibble = 1
  /\ TopPayload[1] >= 128
  /\ self.plist = PyInt(32768)

\* the last call was a Parse of the XML text `doc`, with no binary buffer
\* held
XmlParsed(doc) ==
  /\ op = "Parse"
  /\ self.plist_bin = NoBuffer
  /\ self.plist_xml.t = "xml"
  /\ self.plist_xml.lex = doc.lex

\* documents whose dicts alternate key and value, each key with one text
\* that is not empty, and the value they spell
PairedDocuments ==
  {[doc |-> X_Nested, root |-> V_Nested],
   [doc |-> DocOf(V_Manifest), root |-> V_Manifest],
   [doc |-> X_KeyTwoLines,
    root |-> PyDict([k \in {KeyOfText(<<"a", NL, "b">>)} |-> PyStr(<<"x">>)])]}

\* C23: for a document whose dicts alternate key and value, each key with
\* one non-empty text, the decoded dict maps every key to the value of the
\* element after it at the same level, and every key pushed on the key stack
\* was released when its value closed: none is pending after the parse.
C23_KeysPairWithValues ==
  \A d \in PairedDocuments :
    XmlParsed(d.doc)
      => /\ stage # "decode"
         /\ PyEq(self.plist, d.root)
         /\ self.current_key = << >>

\* the nested document decoded to its value with no key left pending
C23_NestedPaired ==
  XmlParsed(X_Nested) /\ PyEq(self.plist, V_Nested) /\ self.current_key = << >>

\* the key with a line break was filed under its last line, and its first
\* line is still pending
C23_KeySplitAtLineBreak ==
  /\ XmlParsed(X_KeyTwoLines)
  /\ PyEq(self.plist, PyDict([k \in {Key("b")} |-> PyStr(<<"x">>)]))
  /\ self.current_key = <<<<"a">>>>

\* the lexeme at i starts an element
StartsElement(lex, i) == lex[i].k \in {"open", "empty"}

\* the start of an element the start handler must reject: its name is not
\* on the allow-list, or it is not plist and no plist element started before
RejectedStart(lex, i) ==
  /\ StartsElement(lex, i)
  /\ \/ lex[i].n \notin APPLE_PLIST_ELEMENTS
     \/ /\ lex[i].n # "plist"
        /\ \A j \in 1..(i - 1) : ~(StartsElement(lex, j) /\ lex[j].n = "plist")

\* the documents of the decoder's inputs that hold such a start
RejectedDocuments ==
  {d \in XmlDecodeInputs : \E i \in 1..Len(d.lex) : RejectedStart(d.lex, i)}

\* the lexemes of a document before its first rejected start
BeforeRejected(lex) ==
  SubSeq(lex, 1, (CHOOSE i \in 1..Len(lex) :
                    /\ RejectedStart(lex, i)
                    /\ \A j \in 1..(i - 1) : ~RejectedStart(lex, j)) - 1)

\* the three stacks of an object
Stacks(o) == <<o.current_mode, o.current_value, o.current_key>>

\* the stacks after the tokenizer was run over some lexemes from the stacks
\* of the object o
StacksAfter(o, lex) ==
  LET st == ExpatRun([mode |-> o.current_mode, value |-> o.current_value,
                      key |-> o.current_key, plist |-> o.plist,
                      version |-> o.plist_version,
                      encoding |-> o.plist_xml_encoding, err |-> ""],
                     lex, 1, << >>, FALSE)
  IN <<st.mode, st.value, st.key>>

C24_NoPlistReached ==
  /\ XmlParsed(X_NoPlist)
  /\ err = "MalformedPlistError"
  /\ Stacks(self) = <<<< >>, << >>, << >>>>

\* C25: a dict holds an entry for a key only once the value after the key
\* has closed: closing the key element alone adds no entry, so the dict
\* decoded from a dict element whose last child is a key does not contain
\* that key.
C25_KeyAloneAddsNoEntry ==
  (XmlParsed(X_KeyOnly) /\ self.plist.t = "dict")
    => Key("a") \notin DOMAIN self.plist.v

\* the dict whose only child is the key 'a' decoded to {'a': None}
C25_KeyAloneFiledAsNone ==
  /\ XmlParsed(X_KeyOnly)
  /\ stage # "decode"
  /\ self.plist = PyDict([k \in {Key("a")} |-> PyNone])

RECURSIVE WellNestedFrom(_, _, _)
\* the lexemes from i on close the elements of `open`, innermost last, and
\* every element they start
WellNestedFrom(lex, i, open) ==
  IF i > Len(lex) THEN open = << >>
  ELSE IF lex[i].k = "open" THEN WellNestedFrom(lex, i + 1, Append(open, lex[i].n))
  ELSE IF lex[i].k = "close"
  THEN /\ open # << >>
       /\ open[Len(open)] = lex[i].n
       /\ WellNestedFrom(lex, i + 1, SubSeq(open, 1, Len(open) - 1))
  ELSE WellNestedFrom(lex, i + 1, open)

\* the documents of the decoder's inputs that are well nested, name only
\* elements of the allow-list and begin with the start of a plist element
WellNestedDocuments ==
  {d \in XmlDecodeInputs :
     /\ d.lex # << >>
     /\ StartsElement(d.lex, 1) /\ d.lex[1].n = "plist"
     /\ \A i \in 1..Len(d.lex) :
          StartsElement(d.lex, i) => d.lex[i].n \in APPLE_PLIST_ELEMENTS
     /\ WellNestedFrom(d.lex, 1, << >>)}

\* C26: on a well-nested document over the allow-list that begins with
\* plist, the XML decoder completes or raises MalformedPlistError; it never
\* fails on an empty stack, also when a value stands in a dict with no key
\* before it or when a key element has no text.
C26_DecodeEndsOrIsMalformed ==
  \A d \in WellNestedDocuments :
    (XmlParsed(d) /\ stage = "decode") => err = "MalformedPlistError"

\* a value in a dict with no key before it ended the parse with IndexError
C26_ValueNoKeyRaisesIndexError ==
  XmlParsed(X_ValueNoKey) /\ stage = "decode" /\ err = "IndexError"

\* a key with no text ended the parse with IndexError
C26_EmptyKeyRaisesIndexError ==
  XmlParsed(X_EmptyKey) /\ stage = "decode" /\ err = "IndexError"

=============================================================================
